---- MODULE Spec2Model ----
(***************************************************************************)
(* A model of the face swapping core of sd-webui-faceswaplab               *)
(* (scripts/faceswaplab_swapping/swapper.py): the face locator get_faces,  *)
(* the identity blender blend_faces, the similarity scorer, swap_face,     *)
(* and the unit pipeline process_image_unit / process_images_units.        *)
(*                                                                         *)
(* Conventions.                                                            *)
(*  - A Python value that may be None, a value or a raised exception is a  *)
(*    record: PyNone, Ok(v) or Raise(e).                                   *)
(*  - Numbers that are floats in the program are exact rationals           *)
(*    [n |-> numerator, d |-> denominator > 0] in lowest terms; float      *)
(*    rounding is not modelled.                                            *)
(*  - A similarity s >= 0 is carried as its square (a rational), since a   *)
(*    cosine is a square root in general; squaring keeps the order and     *)
(*    the equality of non-negative numbers.                                *)
(*  - An image is what the external collaborators see of it: the faces     *)
(*    the detector can find in it (raw detector order), the largest        *)
(*    detection size at which the detector finds them, and the verdict of  *)
(*    the content check.                                                   *)
(***************************************************************************)
EXTENDS Integers, Sequences, FiniteSets, TLC

(***************************************************************************)
(* Bounds of the model.                                                    *)
(***************************************************************************)
\* Largest number of faces of an image handed to get_faces.
MaxFaces == 3
\* Largest number of faces handed to blend_faces.
MaxBlend == 3
\* Largest number of source faces of a swap unit.
MaxSrcFaces == 3
\* Largest number of units handed to process_images_units.
MaxUnits == 2
\* Largest number of (image, info) pairs handed to process_images_units.
MaxImages == 2

(***************************************************************************)
(* Program constants.                                                      *)
(***************************************************************************)
\* get_faces: det_size defaults to (640, 640).
DefaultDetSize == 640
\* get_faces: a retry happens only while both dimensions exceed 320.
RetryFloor == 320
\* get_faces: default of the option faceswaplab_detection_threshold, in
\* hundredths (0.5).
DefaultDetThresh == 50

VARIABLES
    gf,   \* the running get_faces call: arguments of the current frame, detector passes, result
    bl,   \* the running blend_faces call
    pu,   \* the running process_image_unit call
    pl,   \* the running process_images_units call
    sw,   \* the running swap_face call
    bp,   \* the running batch_process call
    an,   \* the cached analysis model and the get_faces calls that share it
    ug    \* the running UpscaledINSwapper.get call

vars == <<gf, bl, pu, pl, sw, bp, an, ug>>

Idle == [pc |-> "idle"]

(***************************************************************************)
(* Python values.                                                          *)
(***************************************************************************)
PyNone == [kind |-> "None"]
Ok(v) == [kind |-> "ok", val |-> v]
Raise(e) == [kind |-> "raise", exc |-> e]

(***************************************************************************)
(* Exact arithmetic standing for numpy's.                                  *)
(***************************************************************************)
Abs(n) == IF n < 0 THEN -n ELSE n

RECURSIVE Gcd(_, _)
Gcd(a, b) == IF b = 0 THEN a ELSE Gcd(b, a % b)

\* The rational n/d (d # 0) in lowest terms with a positive denominator.
Rat(n, d) ==
    LET g == Gcd(Abs(n), Abs(d))
        s == IF d < 0 THEN -1 ELSE 1
    IN  [n |-> (s * n) \div g, d |-> (s * d) \div g]

RAdd(a, b) == Rat(a.n * b.d + b.n * a.d, a.d * b.d)
RMul(a, b) == Rat(a.n * b.n, a.d * b.d)
RGeq(a, b) == a.n * b.d >= b.n * a.d
RZero == Rat(0, 1)
ROne == Rat(1, 1)

\* A numpy array of the given integers.
Vec(ints) == [i \in 1..Len(ints) |-> Rat(ints[i], 1)]

RECURSIVE RSum(_)
RSum(s) == IF s = <<>> THEN RZero ELSE RAdd(Head(s), RSum(Tail(s)))

\* ndarray.shape of a one-dimensional array.
Shape(e) == Len(e)

\* Mutant of NpMean: the sum is not divided by the number of arrays.
NpMean_sum(embeddings) ==
    [k \in 1..Shape(embeddings[1]) |->
        RSum([i \in 1..Len(embeddings) |-> embeddings[i][k]])]

\* np.mean(embeddings, axis=0) of arrays of one shape.
NpMean(embeddings) ==
    [k \in 1..Shape(embeddings[1]) |->
        RMul(RSum([i \in 1..Len(embeddings) |-> embeddings[i][k]]),
             Rat(1, Len(embeddings)))]

\* np.array_equal
ArrayEqual(a, b) == Shape(a) = Shape(b) /\ \A k \in 1..Shape(a) : a[k] = b[k]

Dot(a, b) == RSum([k \in 1..Shape(a) |-> RMul(a[k], b[k])])

(***************************************************************************)
(* Similarity scorer.                                                      *)
(***************************************************************************)
\* cosine_similarity_face: max(0, cos(face1.embedding, face2.embedding)),
\* carried as its square.  sklearn gives 0 when one vector is null and
\* refuses vectors of different lengths.
cosine_similarity_face(face1, face2) ==
    LET vec1 == face1.embedding
        vec2 == face2.embedding
    IN  IF Shape(vec1) # Shape(vec2) THEN Raise("ValueError")
        ELSE LET d  == Dot(vec1, vec2)
                 n1 == Dot(vec1, vec1)
                 n2 == Dot(vec2, vec2)
             IN  IF d.n <= 0 \/ n1.n = 0 \/ n2.n = 0 THEN Ok(RZero)
                 ELSE Ok(RMul(RMul(d, d), Rat(n1.d * n2.d, n1.n * n2.n)))

(***************************************************************************)
(* Face locator.                                                           *)
(***************************************************************************)
\* The detector behind face_analyser.prepare(...) and face_analyser.get(img):
\* it finds the faces of the image whose score reaches det_thresh, provided
\* the detection size is small enough for this image.
Detect(img_data, det_size, det_thresh) ==
    IF det_size[1] <= img_data.maxDet /\ det_size[2] <= img_data.maxDet
    THEN SelectSeq(img_data.faces, LAMBDA f : f.det_score >= det_thresh)
    ELSE <<>>

\* key of sorted(): the area of the bounding box, or its left x-coordinate.
BBoxArea(x) == (x.bbox[3] - x.bbox[1]) * (x.bbox[4] - x.bbox[2])
SortKey(x, by_size) == IF by_size THEN BBoxArea(x) ELSE x.bbox[1]

\* One insertion of Python's stable sort: x goes behind every element that
\* does not sort after it (reverse=True for the size order).
RECURSIVE InsertSorted(_, _, _)
InsertSorted(s, x, by_size) ==
    IF s = <<>> THEN <<x>>
    ELSE LET after == IF by_size
                      THEN SortKey(Head(s), by_size) < SortKey(x, by_size)
                      ELSE SortKey(Head(s), by_size) > SortKey(x, by_size)
         IN  IF after THEN <<x>> \o s
             ELSE <<Head(s)>> \o InsertSorted(Tail(s), x, by_size)

RECURSIVE SortFacesFrom(_, _, _)
SortFacesFrom(done, rest, by_size) ==
    IF rest = <<>> THEN done
    ELSE SortFacesFrom(InsertSorted(done, Head(rest), by_size), Tail(rest), by_size)

\* The tail of get_faces: sorted(face, reverse=True, key=area) when
\* sort_by_face_size, sorted(face, key=bbox[0]) otherwise.
SortFaces(face, sort_by_face_size) == SortFacesFrom(<<>>, face, sort_by_face_size)

\* det_thresh is None -> the option's value.
ResolveThresh(det_thresh) ==
    IF det_thresh = PyNone THEN DefaultDetThresh ELSE det_thresh.val

\* Mutant of ShouldRetry: the floor itself is still halved (>= for >).
ShouldRetry_geq(face, det_size) ==
    Len(face) = 0 /\ det_size[1] >= RetryFloor /\ det_size[2] >= RetryFloor

\* len(face) == 0 and det_size[0] > 320 and det_size[1] > 320
ShouldRetry(face, det_size) ==
    Len(face) = 0 /\ det_size[1] > RetryFloor /\ det_size[2] > RetryFloor

\* det_size_half
HalfSize(det_size) == <<det_size[1] \div 2, det_size[2] \div 2>>

\* The frame of the recursive call: get_faces(img_data, det_size=det_size_half,
\* det_thresh=det_thresh); sort_by_face_size is not passed on and takes its
\* default, False.
RetryFrame(frame) ==
    [frame EXCEPT !.det_size = HalfSize(frame.det_size),
                  !.sort_by_face_size = FALSE]

\* get_faces as a function: the faces it returns.
RECURSIVE get_faces(_, _, _, _)
get_faces(img_data, det_size, det_thresh, sort_by_face_size) ==
    LET frame == [det_size |-> det_size, sort_by_face_size |-> sort_by_face_size]
        face  == Detect(img_data, det_size, ResolveThresh(det_thresh))
    IN  IF ShouldRetry(face, det_size)
        THEN get_faces(img_data, RetryFrame(frame).det_size, Ok(ResolveThresh(det_thresh)),
                       RetryFrame(frame).sort_by_face_size)
        ELSE SortFaces(face, sort_by_face_size)

(***************************************************************************)
(* Identity blender.                                                       *)
(***************************************************************************)
\* Face(embedding=..., gender=..., age=...)
NewFace(embedding, gender, age) ==
    [embedding |-> embedding, gender |-> gender, age |-> age]

\* Mutant of BlendAssertion: the assertion is gone.
BlendAssertion_off(blended, faces) == TRUE

\* The assertion of blend_faces: with more than one face the blended
\* embedding is not that of the first face.
BlendAssertion(blended, faces) ==
    IF Len(faces) > 1 THEN ~ArrayEqual(blended.embedding, faces[1].embedding) ELSE TRUE

blend_faces(faces) ==
    LET embeddings == [i \in 1..Len(faces) |-> faces[i].embedding] IN
    IF Len(embeddings) > 0
    THEN IF \E i \in 1..Len(embeddings) : Shape(embeddings[i]) # Shape(embeddings[1])
         THEN Raise("ValueError")
         ELSE LET blended == NewFace(NpMean(embeddings), faces[1].gender, faces[1].age)
              IN  IF BlendAssertion(blended, faces) THEN Ok(blended)
                  ELSE Raise("AssertionError")
    ELSE PyNone

(***************************************************************************)
(* swap_face.                                                              *)
(***************************************************************************)
\* The swap models that can be loaded (the argument model): the generated
\* face carries exactly the source identity and gender ("exact"), a mix of
\* source and target identity ("mix"), or the target's own identity
\* ("noop"); "failing" is a compositor whose merge raises.
Models == {"exact", "mix", "noop"}

\* The face the detector finds where target_face was, after the swap.
Generated(model, target_face, source_face) ==
    CASE model = "exact" ->
            [target_face EXCEPT !.embedding = source_face.embedding,
                                !.gender = source_face.gender]
      [] model = "mix" ->
            [target_face EXCEPT !.embedding =
                [k \in 1..Shape(target_face.embedding) |->
                    RAdd(target_face.embedding[k], source_face.embedding[k])]]
      [] OTHER -> target_face

\* face_swapper.get(result, swapped_face, source_face, upscale=...): the
\* image with the face at swapped_face's place replaced; the other faces are
\* left as they are.
face_swapper_get(model, img, swapped_face, source_face, upscale) ==
    IF model = "failing" THEN Raise("ValueError")
    ELSE Ok([img EXCEPT !.faces =
                [k \in 1..Len(img.faces) |->
                    IF img.faces[k].bbox = swapped_face.bbox
                    THEN Generated(model, img.faces[k], source_face)
                    ELSE img.faces[k]]])

\* Mutant of GenderFilter: the faces are not filtered.
GenderFilter_off(faces, same_gender, gender) == faces

\* [x for x in faces if x["gender"] == gender] when same_gender.
GenderFilter(faces, same_gender, gender) ==
    IF same_gender THEN SelectSeq(faces, LAMBDA x : x.gender = gender) ELSE faces

\* for i, swapped_face in enumerate(target_faces): if i in faces_index: ...
\* from position i (zero-based) on.
RECURSIVE SwapFrom(_, _, _, _, _, _, _)
SwapFrom(model, result, target_faces, i, faces_index, source_face, upscale) ==
    IF i >= Len(target_faces) THEN Ok(result)
    ELSE IF i \in faces_index
         THEN LET r == face_swapper_get(model, result, target_faces[i + 1],
                                        source_face, upscale)
              IN  IF r.kind = "raise" THEN r
                  ELSE SwapFrom(model, r.val, target_faces, i + 1, faces_index,
                                source_face, upscale)
         ELSE SwapFrom(model, result, target_faces, i + 1, faces_index,
                       source_face, upscale)

\* ImageResult
ImageResult(image, similarity, ref_similarity) ==
    [image |-> image, similarity |-> similarity, ref_similarity |-> ref_similarity]

\* The indexes for which swap_face records a similarity:
\* i in faces_index and i < len(target_faces), for i over result_faces.
SimilarityKeys(result_faces, target_faces, faces_index) ==
    {i \in faces_index : i < Len(result_faces) /\ i < Len(target_faces)}

swap_face(reference_face, source_face, target_img, model, faces_index, same_gender, upscaled_swapper, compute_similarity, sort_by_face_size) ==
    IF source_face = PyNone THEN Raise("TypeError")     \* source_face["gender"]
    ELSE
    LET gender == source_face.gender
        target_faces ==
            GenderFilter(get_faces(target_img, <<DefaultDetSize, DefaultDetSize>>,
                                   PyNone, sort_by_face_size),
                         same_gender, gender)
        result == SwapFrom(model, target_img, target_faces, 0, faces_index,
                           source_face, upscaled_swapper)
    IN  IF result.kind = "raise" THEN result
        ELSE IF ~compute_similarity THEN Ok(ImageResult(result.val, <<>>, <<>>))
        ELSE
        LET result_faces ==
                GenderFilter(get_faces(result.val, <<DefaultDetSize, DefaultDetSize>>,
                                       PyNone, sort_by_face_size),
                             same_gender, gender)
            keys == SimilarityKeys(result_faces, target_faces, faces_index)
            sim == [i \in keys |-> cosine_similarity_face(source_face, result_faces[i + 1])]
            ref == [i \in keys |->
                        IF reference_face = PyNone THEN Raise("AttributeError")
                        ELSE cosine_similarity_face(reference_face, result_faces[i + 1])]
        IN  IF \E i \in keys : sim[i].kind = "raise" THEN Raise("ValueError")
            ELSE IF \E i \in keys : ref[i].kind = "raise"
                 THEN Raise(ref[CHOOSE i \in keys : ref[i].kind = "raise"].exc)
            ELSE Ok(ImageResult(result.val, [i \in keys |-> sim[i].val],
                                [i \in keys |-> ref[i].val]))

(***************************************************************************)
(* Unit pipeline.                                                          *)
(***************************************************************************)
\* Mutant of check_against_nsfw: no image is flagged.
check_against_nsfw_off(image) == FALSE

\* check_against_nsfw(image)
check_against_nsfw(image) == image.nsfw

\* FaceSwapUnitSettings.blended_faces: the identity blender's output for the
\* unit's faces.
blended_faces(unit) == blend_faces(unit.faces)

\* str(info) inside the f-string: the text of a None info is "None".
InfoText(info) == IF info = PyNone THEN <<[t |-> "None"]>> ELSE info.text

\* Mutant of InfoWithSimilarity: the info received is not carried along.
InfoWithSimilarity_fresh(info, result) ==
    [kind |-> "str",
     text |-> <<[t |-> "None"],
                [t |-> ", similarity = {}, ref_similarity = {}",
                 similarity |-> result.similarity,
                 ref_similarity |-> result.ref_similarity]>>]

\* f"{info}, similarity = {result.similarity}, ref_similarity = {result.ref_similarity}"
InfoWithSimilarity(info, result) ==
    [kind |-> "str",
     text |-> InfoText(info) \o
              <<[t |-> ", similarity = {}, ref_similarity = {}",
                 similarity |-> result.similarity,
                 ref_similarity |-> result.ref_similarity]>>]

\* x >= threshold for a similarity x carried as its square.
SimGeq(x, threshold) == RGeq(x, RMul(threshold, threshold))

\* Mutant of Accepted: a similarity must exceed min_sim (> for >=).
Accepted_strict(unit, result) ==
    \/ ~unit.check_similarity
    \/ /\ DOMAIN result.similarity # {}
       /\ \A i \in DOMAIN result.similarity :
             ~RGeq(RMul(unit.min_sim, unit.min_sim), result.similarity[i])
       /\ \A i \in DOMAIN result.ref_similarity :
             SimGeq(result.ref_similarity[i], unit.min_ref_sim)

\* The acceptance test of process_image_unit:
\*   (not unit.check_similarity)
\*   or result.similarity and all([...] + [x >= unit.min_sim ...])
\*                        and all([...] + [x >= unit.min_ref_sim ...])
\* (result.similarity.values() != 0 is always true).
Accepted(unit, result) ==
    \/ ~unit.check_similarity
    \/ /\ DOMAIN result.similarity # {}
       /\ \A i \in DOMAIN result.similarity :
             SimGeq(result.similarity[i], unit.min_sim)
       /\ \A i \in DOMAIN result.ref_similarity :
             SimGeq(result.ref_similarity[i], unit.min_ref_sim)

\* The choice of src_faces, with the assertion of the blend branch.
SourceFaces(unit, force_blend) ==
    IF ~unit.blend_faces /\ ~force_blend THEN Ok(unit.faces)
    ELSE LET blended == blended_faces(unit) IN
         IF blended.kind = "raise" THEN blended
         ELSE IF Len(unit.faces) > 1
              THEN IF unit.reference_face = PyNone
                   THEN Raise("AttributeError")   \* unit.reference_face.embedding
                   ELSE IF ArrayEqual(unit.reference_face.embedding, blended.val.embedding)
                        THEN Raise("AssertionError")
                        ELSE Ok(<<blended.val>>)
              ELSE Ok(<<IF blended = PyNone THEN PyNone ELSE blended.val>>)

RECURSIVE UnitLoop(_, _, _, _, _, _, _, _)

\* Mutant of UnitRound: an exception of swap_face ends the loop and what was
\* collected so far is returned.
UnitRound_swallow(model, unit, image, info, upscaled_swapper, src_faces, i, results, result) ==
    IF result.kind = "raise" THEN Ok(results)
    ELSE UnitLoop(model, unit, image, info, upscaled_swapper, src_faces, i + 1,
                  IF Accepted(unit, result.val)
                  THEN Append(results, <<result.val.image,
                                         InfoWithSimilarity(info, result.val)>>)
                  ELSE results)

\* The rest of one round of the loop over src_faces, result being what
\* swap_face returned for src_faces[i]: the acceptance test, the append, and
\* the next round.
UnitRound(model, unit, image, info, upscaled_swapper, src_faces, i, results, result) ==
    IF result.kind = "raise" THEN result
    ELSE UnitLoop(model, unit, image, info, upscaled_swapper, src_faces, i + 1,
                  IF Accepted(unit, result.val)
                  THEN Append(results, <<result.val.image,
                                         InfoWithSimilarity(info, result.val)>>)
                  ELSE results)

\* reference_face = unit.reference_face if it is not None else src_face
ReferenceFace(unit, src_face) ==
    IF unit.reference_face # PyNone THEN unit.reference_face ELSE src_face

\* for i, src_face in enumerate(src_faces): ... from position i (one-based) on.
UnitLoop(model, unit, image, info, upscaled_swapper, src_faces, i, results) ==
    IF i > Len(src_faces) THEN Ok(results)
    ELSE UnitRound(model, unit, image, info, upscaled_swapper, src_faces, i, results,
                   swap_face(ReferenceFace(unit, src_faces[i]), src_faces[i], image, model,
                             unit.faces_index, unit.same_gender, upscaled_swapper,
                             unit.compute_similarity, unit.sort_by_size))

process_image_unit(model, unit, image, info, upscaled_swapper, force_blend) ==
    IF unit.enable
    THEN IF check_against_nsfw(image) THEN Ok(<<<<image, info>>>>)
         ELSE LET src_faces == SourceFaces(unit, force_blend) IN
              IF src_faces.kind = "raise" THEN src_faces
              ELSE UnitLoop(model, unit, image, info, upscaled_swapper,
                            src_faces.val, 1, <<>>)
    ELSE Ok(<<>>)

\* if nexts: a list that is neither None nor empty.
Truthy(nexts) == nexts # PyNone /\ nexts.val # <<>>

RECURSIVE ImagesLoop(_, _, _, _, _, _, _)

\* if nexts: processed_images.extend(nexts) else: processed_images.extend(swapped),
\* then the next image.
ImagesExtend(model, units, images, upscaled_swapper, force_blend, i, processed_images, swapped, nexts) ==
    IF nexts.kind = "raise" THEN nexts
    ELSE ImagesLoop(model, units, images, upscaled_swapper, force_blend, i + 1,
                    IF Truthy(nexts)
                    THEN processed_images \o nexts.val
                    ELSE processed_images \o swapped.val)

\* nexts = process_images_units(model, units[1:], swapped, ...), swapped being
\* what the first unit returned for image i.
ImagesRound(model, units, images, upscaled_swapper, force_blend, i, processed_images, swapped) ==
    IF swapped.kind = "raise" THEN swapped
    ELSE ImagesExtend(model, units, images, upscaled_swapper, force_blend, i,
                      processed_images, swapped,
                      ImagesLoop(model, Tail(units), swapped.val,
                                 upscaled_swapper, force_blend, 1, <<>>))

\* The body of process_images_units, with its loop
\*   for i, (image, info) in enumerate(images): ...
\* from position i (one-based) on, processed_images being what the earlier
\* rounds collected.
ImagesLoop(model, units, images, upscaled_swapper, force_blend, i, processed_images) ==
    IF Len(units) = 0 THEN PyNone
    ELSE IF i > Len(images) THEN Ok(processed_images)
    ELSE ImagesRound(model, units, images, upscaled_swapper, force_blend, i,
                     processed_images,
                     process_image_unit(model, units[1], images[i][1], images[i][2],
                                        upscaled_swapper, force_blend))

process_images_units(model, units, images, upscaled_swapper, force_blend) ==
    ImagesLoop(model, units, images, upscaled_swapper, force_blend, 1, <<>>)

(***************************************************************************)
(* get_faces, one detector pass at a time.                                 *)
(***************************************************************************)
\* A detected face.
DetFace(bbox, gender, emb, score) ==
    [bbox |-> bbox, gender |-> gender, age |-> 30, embedding |-> Vec(emb),
     det_score |-> score]

\* Faces for the locator: areas 100, 400, 50 at x = 30, 10, 20, a second
\* face at x = 10 (area 50), and one face the default threshold discards.
LocatorFaces ==
    { DetFace(<<30, 0, 40, 10>>, "M", <<1, 0>>, 90),
      DetFace(<<10, 0, 30, 20>>, "F", <<0, 1>>, 90),
      DetFace(<<20, 0, 30, 5>>, "M", <<3, 4>>, 90),
      DetFace(<<10, 30, 20, 35>>, "F", <<1, 0>>, 40) }

DetSizes == {160, 320, 640}

SeqsUpTo(S, n) == UNION {[1..k -> S] : k \in 0..n}

\* The detector never reports one bounding box twice.
DistinctBoxes(fs) == \A i, j \in 1..Len(fs) : fs[i].bbox = fs[j].bbox => i = j

LocatorImages ==
    { [faces |-> fs, maxDet |-> m, nsfw |-> FALSE] :
        fs \in {s \in SeqsUpTo(LocatorFaces, MaxFaces) : DistinctBoxes(s)},
        m \in DetSizes }

InitFaces ==
    /\ \E img \in LocatorImages, sz \in {<<640, 640>>, <<320, 320>>, <<640, 320>>, <<1280, 1280>>},
          th \in {PyNone, Ok(30)}, srt \in BOOLEAN :
          gf = [pc |-> "detect", img_data |-> img,
                call |-> [det_size |-> sz, det_thresh |-> th, sort_by_face_size |-> srt],
                det_size |-> sz, det_thresh |-> ResolveThresh(th), sort_by_face_size |-> srt,
                passes |-> <<>>, ret |-> <<>>]
    /\ bl = Idle /\ pu = Idle /\ pl = Idle
    /\ sw = Idle /\ bp = Idle /\ an = Idle /\ ug = Idle

\* face_analyser.prepare + face_analyser.get at the frame's size, then either
\* the recursive call at half the size or the sorted result.
GetFacesPass ==
    /\ gf.pc = "detect"
    /\ LET face   == Detect(gf.img_data, gf.det_size, gf.det_thresh)
           passes == Append(gf.passes, gf.det_size)
       IN  \/ /\ ShouldRetry(face, gf.det_size)
              /\ gf' = [RetryFrame(gf) EXCEPT !.passes = passes]
           \/ /\ ~ShouldRetry(face, gf.det_size)
              /\ gf' = [gf EXCEPT !.pc = "done", !.passes = passes,
                                  !.ret = SortFaces(face, gf.sort_by_face_size)]
    /\ UNCHANGED <<bl, pu, pl, sw, bp, an, ug>>

NextFaces == GetFacesPass

SpecFaces == InitFaces /\ [][NextFaces]_vars

\* The result is in descending order of bounding-box area.
BySizeOrdered(s) == \A i \in 1..Len(s) - 1 : BBoxArea(s[i]) >= BBoxArea(s[i + 1])
\* The result is in ascending order of the left x-coordinate.
ByXOrdered(s) == \A i \in 1..Len(s) - 1 : s[i].bbox[1] <= s[i + 1].bbox[1]

\* A call at (640, 640) on an image whose faces the detector finds only at
\* 160 x 160 or smaller, with at least one face above the threshold.
SmallFacesCall ==
    /\ gf.call.det_size = <<DefaultDetSize, DefaultDetSize>>
    /\ gf.img_data.maxDet = 160
    /\ Detect(gf.img_data, <<160, 160>>, gf.det_thresh) # <<>>

\* C6 as stated: for a detector that returns faces only at 160 x 160 or
\* smaller, get_faces called with (640, 640) runs the detector at 640, then
\* 320, then 160, and returns a non-empty sequence.
C6_ThreePasses ==
    (gf.pc = "done" /\ SmallFacesCall) =>
        /\ gf.passes = <<<<640, 640>>, <<320, 320>>, <<160, 160>>>>
        /\ gf.ret # <<>>

\* C6 amended: for such a detector, get_faces called with (640, 640) runs the
\* detector at 640 and then at 320 only (one halving: a retry needs both
\* dimensions above 320), and returns the empty sequence.
C6_TwoPasses ==
    (gf.pc = "done" /\ SmallFacesCall) =>
        /\ gf.passes = <<<<640, 640>>, <<320, 320>>>>
        /\ gf.ret = <<>>

C6_Witness == gf.pc = "done" /\ SmallFacesCall /\ Len(gf.passes) = 2

\* C7: every call of get_faces, retries included, returns its faces in
\* descending order of bounding-box area when the caller set sort_by_face_size
\* and in ascending order of the left x-coordinate otherwise.
C7_Ordered ==
    gf.pc = "done" =>
        IF gf.call.sort_by_face_size THEN BySizeOrdered(gf.ret) ELSE ByXOrdered(gf.ret)

(***************************************************************************)
(* blend_faces, applied to the faces drawn at the start.                   *)
(***************************************************************************)
SrcFace(emb, gender, age) ==
    [bbox |-> <<0, 0, 10, 10>>, gender |-> gender, age |-> age,
     embedding |-> Vec(emb), det_score |-> 90]

BlendPool ==
    { SrcFace(<<1, 0>>, "M", 20), SrcFace(<<0, 1>>, "F", 40),
      SrcFace(<<2, 0>>, "M", 30), SrcFace(<<0, 2>>, "F", 30),
      SrcFace(<<1, 1>>, "F", 50), SrcFace(<<1>>, "M", 60) }

InitBlend ==
    /\ \E faces \in SeqsUpTo(BlendPool, MaxBlend) :
          bl = [pc |-> "call", faces |-> faces, ret |-> PyNone]
    /\ gf = Idle /\ pu = Idle /\ pl = Idle
    /\ sw = Idle /\ bp = Idle /\ an = Idle /\ ug = Idle

BlendFaces ==
    /\ bl.pc = "call"
    /\ bl' = [bl EXCEPT !.pc = "done", !.ret = blend_faces(bl.faces)]
    /\ UNCHANGED <<gf, pu, pl, sw, bp, an, ug>>

NextBlend == BlendFaces

SpecBlend == InitBlend /\ [][NextBlend]_vars

SameShapes(faces) ==
    \A i \in 1..Len(faces) : Shape(faces[i].embedding) = Shape(faces[1].embedding)

\* n times the embedding e is the sum of the embeddings of the faces.
IsMeanOf(e, faces) ==
    /\ Shape(e) = Shape(faces[1].embedding)
    /\ \A k \in 1..Shape(e) :
          RMul(Rat(Len(faces), 1), e[k]) =
              RSum([i \in 1..Len(faces) |-> faces[i].embedding[k]])

\* The face the blender is to return: the mean embedding, gender and age of
\* the first face.
IsBlendOf(ret, faces) ==
    /\ ret.kind = "ok"
    /\ IsMeanOf(ret.val.embedding, faces)
    /\ ret.val.gender = faces[1].gender
    /\ ret.val.age = faces[1].age
    /\ (Len(faces) = 1 => ret.val.embedding = faces[1].embedding)
    /\ ((Len(faces) = 2 /\ faces[1].embedding = Vec(<<1, 0>>)
            /\ faces[2].embedding = Vec(<<0, 1>>))
          => ret.val.embedding = <<Rat(1, 2), Rat(1, 2)>>)

\* The mean of several faces is the embedding of the first of them.
DegenerateBlend(faces) ==
    Len(faces) > 1 /\ SameShapes(faces) /\ IsMeanOf(faces[1].embedding, faces)

C9_DiffersFromAll ==
    (bl.pc = "done" /\ Len(bl.faces) > 1 /\ bl.ret.kind = "ok") =>
        \A i \in 1..Len(bl.faces) :
            ~ArrayEqual(bl.ret.val.embedding, bl.faces[i].embedding)

\* C9 amended: when more than one face contributed, the embedding of the
\* returned blended face is not identical to the embedding of the first
\* contributing face.
C9_DiffersFromFirst ==
    (bl.pc = "done" /\ Len(bl.faces) > 1 /\ bl.ret.kind = "ok") =>
        ~ArrayEqual(bl.ret.val.embedding, bl.faces[1].embedding)

C9_Witness ==
    /\ bl.pc = "done" /\ Len(bl.faces) = 3 /\ bl.ret.kind = "ok"
    /\ ArrayEqual(bl.ret.val.embedding, bl.faces[2].embedding)

(***************************************************************************)
(* Units and target images the pipeline is applied to.                     *)
(***************************************************************************)
\* The i-th source face of a unit: identities [1,0], [0,1], [3,4], [i,1], ...
SourceFaceNo(i) ==
    SrcFace(CASE i = 1 -> <<1, 0>> [] i = 2 -> <<0, 1>> [] i = 3 -> <<3, 4>>
              [] OTHER -> <<i, 1>>,
            IF i % 2 = 1 THEN "M" ELSE "F", 20 + i)

\* A reference face that is none of the source faces.
OtherReference == SrcFace(<<4, 3>>, "F", 33)

\* FaceSwapUnitSettings
Unit(enable, faces, reference_face, blend, faces_index, same_gender, sort_by_size, check_similarity, compute_similarity, min_sim, min_ref_sim) ==
    [enable |-> enable, faces |-> faces, reference_face |-> reference_face,
     blend_faces |-> blend, faces_index |-> faces_index, same_gender |-> same_gender,
     sort_by_size |-> sort_by_size, check_similarity |-> check_similarity,
     compute_similarity |-> compute_similarity, min_sim |-> min_sim,
     min_ref_sim |-> min_ref_sim]

FirstFaces(k) == [i \in 1..k |-> SourceFaceNo(i)]

DisabledUnit ==
    Unit(FALSE, FirstFaces(1), PyNone, FALSE, {0}, FALSE, FALSE, FALSE, TRUE, RZero, RZero)

\* Target images: no face; one face; two faces (the left one small, the right
\* one large); two faces found only at detection size 320; an image the
\* content check flags.
TargetNone == [faces |-> <<>>, maxDet |-> DefaultDetSize, nsfw |-> FALSE]
TargetOne ==
    [faces |-> <<DetFace(<<10, 0, 30, 20>>, "M", <<3, 4>>, 90)>>,
     maxDet |-> DefaultDetSize, nsfw |-> FALSE]
TargetTwo ==
    [faces |-> <<DetFace(<<30, 0, 60, 30>>, "F", <<0, 1>>, 90),
                 DetFace(<<10, 0, 20, 10>>, "M", <<3, 4>>, 90)>>,
     maxDet |-> DefaultDetSize, nsfw |-> FALSE]
TargetTwoSmall == [TargetTwo EXCEPT !.maxDet = RetryFloor]
TargetFlagged == [TargetOne EXCEPT !.nsfw = TRUE]

\* An info string given by the caller.
GivenInfo == [kind |-> "str", text |-> <<[t |-> "seed"]>>]

(***************************************************************************)
(* process_image_unit, applied to the unit and image drawn at the start.   *)
(***************************************************************************)
UnitConfigs ==
    {DisabledUnit} \cup
    { Unit(TRUE, FirstFaces(k), ref, blend, fi, sg, srt, chk, cmp, ms, mr) :
        k \in 0..MaxSrcFaces, ref \in {PyNone, SourceFaceNo(1), OtherReference},
        blend \in BOOLEAN, fi \in {{0}, {1}, {0, 1}}, sg \in BOOLEAN, srt \in BOOLEAN,
        chk \in BOOLEAN, cmp \in BOOLEAN,
        ms \in {RZero, Rat(3, 5), ROne}, mr \in {RZero, Rat(3, 5)} }

InitUnit ==
    /\ \E unit \in {u \in UnitConfigs :
                       u.check_similarity \/ (u.min_sim = RZero /\ u.min_ref_sim = RZero)},
          image \in {TargetNone, TargetOne, TargetTwo, TargetTwoSmall, TargetFlagged},
          info \in {PyNone, GivenInfo}, model \in Models, force_blend \in BOOLEAN :
          pu = [pc |-> "call", model |-> model, unit |-> unit, image |-> image,
                info |-> info, upscaled_swapper |-> FALSE, force_blend |-> force_blend,
                ret |-> PyNone]
    /\ gf = Idle /\ bl = Idle /\ pl = Idle
    /\ sw = Idle /\ bp = Idle /\ an = Idle /\ ug = Idle

ProcessImageUnit ==
    /\ pu.pc = "call"
    /\ pu' = [pu EXCEPT !.pc = "done",
                        !.ret = process_image_unit(pu.model, pu.unit, pu.image, pu.info,
                                                   pu.upscaled_swapper, pu.force_blend)]
    /\ UNCHANGED <<gf, bl, pl, sw, bp, an, ug>>

NextUnit == ProcessImageUnit

SpecUnit == InitUnit /\ [][NextUnit]_vars

\* A finished application of an enabled unit, with the similarity check on,
\* to an image the content check lets through.
CheckedUnitRun ==
    /\ pu.pc = "done" /\ pu.unit.enable /\ ~check_against_nsfw(pu.image)
    /\ pu.unit.check_similarity
    /\ pu.ret.kind = "ok"

\* The identities the unit swaps in, in order.
RunSources == SourceFaces(pu.unit, pu.force_blend).val

\* The ImageResult of swapping the i-th identity into the image.
RunResult(i) ==
    swap_face(IF pu.unit.reference_face # PyNone THEN pu.unit.reference_face
              ELSE RunSources[i],
              RunSources[i], pu.image, pu.model, pu.unit.faces_index,
              pu.unit.same_gender, pu.upscaled_swapper, pu.unit.compute_similarity,
              pu.unit.sort_by_size).val

\* The (image, info) pair the unit returns for the result r when it accepts it.
PairOf(r) ==
    <<r.image,
      [kind |-> "str",
       text |-> Append(InfoText(pu.info),
                       [t |-> ", similarity = {}, ref_similarity = {}",
                        similarity |-> r.similarity,
                        ref_similarity |-> r.ref_similarity])]>>

RunPair(i) == PairOf(RunResult(i))

InOutput(pair) == \E j \in 1..Len(pu.ret.val) : pu.ret.val[j] = pair

\* x < threshold, for a similarity carried as its square.
BelowThreshold(x, threshold) ==
    x.n * (threshold.d * threshold.d) < (threshold.n * threshold.n) * x.d

SomeBelow(r) ==
    \/ \E k \in DOMAIN r.similarity : BelowThreshold(r.similarity[k], pu.unit.min_sim)
    \/ \E k \in DOMAIN r.ref_similarity :
          BelowThreshold(r.ref_similarity[k], pu.unit.min_ref_sim)

\* C4: with checkSimilarity on, a result with a computed similarity below
\* minSim or a computed reference similarity below minRefSim is not in the
\* unit's output, and a result that has computed similarities, all at or
\* above minSim, and reference similarities all at or above minRefSim, is in
\* it; a value equal to the threshold is accepted.
C4_SimilarityGate ==
    CheckedUnitRun =>
        \A i \in 1..Len(RunSources) :
            LET r == RunResult(i) IN
            /\ SomeBelow(r) => ~InOutput(PairOf(r))
            /\ (DOMAIN r.similarity # {} /\ ~SomeBelow(r)) => InOutput(PairOf(r))

\* A result is accepted with a similarity exactly at a positive threshold,
\* and another one of the same run is rejected.
C4_Witness ==
    /\ CheckedUnitRun
    /\ pu.unit.min_sim = Rat(3, 5)
    /\ \E i \in 1..Len(RunSources) :
          /\ \E k \in DOMAIN RunResult(i).similarity :
                RunResult(i).similarity[k] = Rat(9, 25)
          /\ InOutput(RunPair(i))
    /\ \E i \in 1..Len(RunSources) : SomeBelow(RunResult(i)) /\ ~InOutput(RunPair(i))

\* C5: with checkSimilarity on, a result whose similarity map is empty (no
\* face at a selected index, or computeSimilarity off) was not evaluated and
\* is not rejected by the gate: it is in the unit's output.
C5_EmptyMapNotRejected ==
    CheckedUnitRun =>
        \A i \in 1..Len(RunSources) :
            DOMAIN RunResult(i).similarity = {} => InOutput(RunPair(i))

(***************************************************************************)
(* process_images_units, applied to the units and images drawn at the      *)
(* start.                                                                  *)
(***************************************************************************)
\* The acceptance settings of the pipeline's units: no check (similarity
\* computed or not), or a check that demands similarity 1 to the source.
GateSettings ==
    { [check |-> FALSE, compute |-> TRUE, min_sim |-> RZero],
      [check |-> FALSE, compute |-> FALSE, min_sim |-> RZero],
      [check |-> TRUE, compute |-> TRUE, min_sim |-> ROne] }

\* The units of the pipeline: a disabled one; one without source faces;
\* enumerating units with 2, 3 or MaxSrcFaces source faces under each
\* acceptance setting; blending units with no or 2 source faces, with and
\* without a reference face.
PipelineUnits ==
    {DisabledUnit} \cup
    { Unit(TRUE, <<>>, PyNone, FALSE, {0}, FALSE, FALSE, FALSE, TRUE, RZero, RZero) } \cup
    { Unit(TRUE, FirstFaces(k), PyNone, FALSE, {0}, FALSE, FALSE,
           g.check, g.compute, g.min_sim, RZero) :
        k \in {2, 3, MaxSrcFaces}, g \in GateSettings } \cup
    { Unit(TRUE, FirstFaces(k), ref, TRUE, {0}, FALSE, FALSE, FALSE, TRUE, RZero, RZero) :
        k \in {0, 2}, ref \in {PyNone, SourceFaceNo(1)} }

PipelineImages == {<<TargetOne, PyNone>>, <<TargetFlagged, PyNone>>}

InitPipeline ==
    /\ \E units \in SeqsUpTo(PipelineUnits, MaxUnits),
          images \in SeqsUpTo(PipelineImages, MaxImages), model \in Models :
          pl = [pc |-> "call", model |-> model, units |-> units, images |-> images,
                upscaled_swapper |-> FALSE, force_blend |-> FALSE, ret |-> PyNone]
    /\ gf = Idle /\ bl = Idle /\ pu = Idle
    /\ sw = Idle /\ bp = Idle /\ an = Idle /\ ug = Idle

ProcessImagesUnits ==
    /\ pl.pc = "call"
    /\ pl' = [pl EXCEPT !.pc = "done",
                        !.ret = process_images_units(pl.model, pl.units, pl.images,
                                                     pl.upscaled_swapper, pl.force_blend)]
    /\ UNCHANGED <<gf, bl, pu, sw, bp, an, ug>>

NextPipeline == ProcessImagesUnits

SpecPipeline == InitPipeline /\ [][NextPipeline]_vars

\* The pipeline as the claims describe it: unit 0 applied to every image, the
\* remaining units applied to each fan-out, the results concatenated; with no
\* unit left the images are returned as they are.
RECURSIVE ChainedFrom(_, _, _, _, _)
ChainedFrom(model, units, images, i, acc) ==
    IF units = <<>> THEN Ok(images)
    ELSE IF i > Len(images) THEN Ok(acc)
    ELSE LET swapped == process_image_unit(model, units[1], images[i][1], images[i][2],
                                           pl.upscaled_swapper, pl.force_blend)
         IN  IF swapped.kind = "raise" THEN swapped
             ELSE LET rest == ChainedFrom(model, Tail(units), swapped.val, 1, <<>>)
                  IN  IF rest.kind = "raise" THEN rest
                      ELSE ChainedFrom(model, units, images, i + 1, acc \o rest.val)

ChainedUnits(model, units, images) == ChainedFrom(model, units, images, 1, <<>>)

\* C1: for every non-empty list of units, process_images_units returns the
\* concatenation, over the input images in order, of the results of applying
\* the remaining units to the fan-out unit 0 produced for that image; a
\* variant a later unit rejected never shows up in its earlier form.
C1_Concatenation ==
    (pl.pc = "done" /\ Len(pl.units) > 0) =>
        pl.ret = ChainedUnits(pl.model, pl.units, pl.images)

FanOut(unit) == IF unit.blend_faces THEN 1 ELSE Len(unit.faces)

RECURSIVE FanOutProduct(_)
FanOutProduct(units) ==
    IF units = <<>> THEN 1 ELSE FanOut(Head(units)) * FanOutProduct(Tail(units))

\* Every unit enabled, every image safe, checkSimilarity off everywhere.
PlainRun ==
    /\ pl.pc = "done" /\ Len(pl.units) > 0
    /\ \A k \in 1..Len(pl.units) :
          pl.units[k].enable /\ ~pl.units[k].check_similarity
    /\ \A i \in 1..Len(pl.images) : ~check_against_nsfw(pl.images[i][1])

\* C2: with every unit enabled, the image safe and checkSimilarity off, the
\* number of output pairs is the product of the units' fan-outs (1 for a
\* blending unit, the number of source faces otherwise), per input image.
C2_FanOutProduct ==
    PlainRun =>
        /\ pl.ret.kind = "ok"
        /\ Len(pl.ret.val) = Len(pl.images) * FanOutProduct(pl.units)

\* Unit A with fan-out 2, then unit B with fan-out 3, on one safe image.
TwoByThree ==
    /\ PlainRun /\ Len(pl.units) = 2 /\ Len(pl.images) = 1
    /\ ~pl.units[1].blend_faces /\ Len(pl.units[1].faces) = 2
    /\ ~pl.units[2].blend_faces /\ Len(pl.units[2].faces) = 3

\* C3 as stated: A (fan-out 2) then B (fan-out 3) on one image give 6 pairs
\* whose info strings are pairwise distinct, whatever computeSimilarity and
\* the similarities are.
C3_DistinctInfos ==
    TwoByThree =>
        /\ pl.ret.kind = "ok" /\ Len(pl.ret.val) = 6
        /\ \A i, j \in 1..6 : i # j => pl.ret.val[i][2] # pl.ret.val[j][2]

\* The result of swapping source face f of the unit into the image.
SwapOf(unit, f, image) ==
    swap_face(IF unit.reference_face # PyNone THEN unit.reference_face ELSE unit.faces[f],
              unit.faces[f], image, pl.model, unit.faces_index, unit.same_gender,
              pl.upscaled_swapper, unit.compute_similarity, unit.sort_by_size).val

SimilarityNote(r) ==
    [t |-> ", similarity = {}, ref_similarity = {}",
     similarity |-> r.similarity, ref_similarity |-> r.ref_similarity]

\* C3 amended: A (fan-out 2) then B (fan-out 3) on one image give 6 pairs;
\* the info string of the pair for A's face a and B's face b is the input
\* info followed by the similarity note of A's swap and then of B's swap, so
\* two info strings differ only where these notes differ, and with
\* computeSimilarity off in both units the six strings are identical.
C3_InfosFollowSimilarity ==
    TwoByThree =>
        /\ pl.ret.kind = "ok" /\ Len(pl.ret.val) = 6
        /\ \A a \in 1..2, b \in 1..3 :
              LET ra == SwapOf(pl.units[1], a, pl.images[1][1])
                  rb == SwapOf(pl.units[2], b, ra.image)
              IN  pl.ret.val[3 * (a - 1) + b] =
                     <<rb.image,
                       [kind |-> "str",
                        text |-> InfoText(pl.images[1][2]) \o
                                 <<SimilarityNote(ra), SimilarityNote(rb)>>]>>
        /\ (~pl.units[1].compute_similarity /\ ~pl.units[2].compute_similarity)
              => \A i, j \in 1..6 : pl.ret.val[i][2] = pl.ret.val[j][2]

\* Six pairs, some with different and some with equal info strings.
C3_Witness ==
    /\ TwoByThree /\ pl.ret.kind = "ok" /\ Len(pl.ret.val) = 6
    /\ pl.units[1].compute_similarity /\ pl.units[2].compute_similarity
    /\ \E i, j \in 1..6 : i # j /\ pl.ret.val[i][2] = pl.ret.val[j][2]
    /\ \E i, j \in 1..6 : pl.ret.val[i][2] # pl.ret.val[j][2]

WithoutDisabled(units) == SelectSeq(units, LAMBDA u : u.enable)

\* C10: a disabled unit passes the image through: the output of a unit list
\* that contains a disabled unit is the output of the list without it (the
\* input itself when no unit is left), so no input image is lost.
C10_DisabledIsTransparent ==
    (pl.pc = "done" /\ \E k \in 1..Len(pl.units) : ~pl.units[k].enable) =>
        pl.ret = IF WithoutDisabled(pl.units) = <<>> THEN Ok(pl.images)
                 ELSE process_images_units(pl.model, WithoutDisabled(pl.units), pl.images,
                                           pl.upscaled_swapper, pl.force_blend)

\* C11: process_images_units called with an empty unit list returns its
\* input list of (image, info) pairs unchanged.
C11_EmptyUnitsReturnInput ==
    (pl.pc = "done" /\ Len(pl.units) = 0) => pl.ret = Ok(pl.images)

(***************************************************************************)
(* The calls one application of a unit makes to the face detector and to   *)
(* the swap engine.                                                        *)
(***************************************************************************)
NoCalls == [get_faces |-> 0, face_swapper_get |-> 0]

AddCalls(a, b) ==
    [get_faces |-> a.get_faces + b.get_faces,
     face_swapper_get |-> a.face_swapper_get + b.face_swapper_get]

\* The target faces swap_face works on: get_faces, then the gender filter.
TargetFaces(source_face, target_img, same_gender, sort_by_face_size) ==
    GenderFilter(get_faces(target_img, <<DefaultDetSize, DefaultDetSize>>, PyNone,
                           sort_by_face_size),
                 same_gender, source_face.gender)

\* The faces the loop over target_faces hands to face_swapper.get, from
\* position i (zero-based) on: those whose position is in faces_index.
RECURSIVE SelectedFrom(_, _, _)
SelectedFrom(target_faces, i, faces_index) ==
    IF i >= Len(target_faces) THEN <<>>
    ELSE (IF i \in faces_index THEN <<target_faces[i + 1]>> ELSE <<>>)
         \o SelectedFrom(target_faces, i + 1, faces_index)

\* The faces one swap_face passes to face_swapper.get, in order: none when
\* source_face["gender"] fails; the engine that fails ends the loop at its
\* first call.
CutAtFailure(model, selected) ==
    IF model = "failing" /\ selected # <<>> THEN <<Head(selected)>> ELSE selected

swap_face_passed(source_face, target_img, model, faces_index, same_gender, sort_by_face_size) ==
    IF source_face = PyNone THEN <<>>
    ELSE CutAtFailure(model,
            SelectedFrom(TargetFaces(source_face, target_img, same_gender,
                                     sort_by_face_size),
                         0, faces_index))

\* get_faces is called for the target once source_face["gender"] has been
\* read, and for the result when the loop did not raise and the similarity
\* is computed.
GetFacesCalls(source_face, model, passed, compute_similarity) ==
    IF source_face = PyNone THEN 0
    ELSE IF model = "failing" /\ passed # <<>> THEN 1
    ELSE IF compute_similarity THEN 2 ELSE 1

\* The calls of one swap_face.
swap_face_calls(source_face, target_img, model, faces_index, same_gender, compute_similarity, sort_by_face_size) ==
    [get_faces |->
        GetFacesCalls(source_face, model,
                      swap_face_passed(source_face, target_img, model, faces_index,
                                       same_gender, sort_by_face_size),
                      compute_similarity),
     face_swapper_get |->
        Len(swap_face_passed(source_face, target_img, model, faces_index,
                             same_gender, sort_by_face_size))]

\* The calls of the loop over src_faces from position i on: the loop ends at
\* the first swap_face that raises.
RECURSIVE UnitLoopCalls(_, _, _, _, _, _)
UnitLoopCalls(model, unit, image, upscaled_swapper, src_faces, i) ==
    IF i > Len(src_faces) THEN NoCalls
    ELSE AddCalls(
           swap_face_calls(src_faces[i], image, model, unit.faces_index, unit.same_gender,
                           unit.compute_similarity, unit.sort_by_size),
           IF swap_face(ReferenceFace(unit, src_faces[i]), src_faces[i], image, model,
                        unit.faces_index, unit.same_gender, upscaled_swapper,
                        unit.compute_similarity, unit.sort_by_size).kind = "raise"
           THEN NoCalls
           ELSE UnitLoopCalls(model, unit, image, upscaled_swapper, src_faces, i + 1))

\* The unit reaches its loop over src_faces: it is enabled, the content check
\* lets the image through, and the choice of src_faces did not raise.
UnitSwaps(unit, image, force_blend) ==
    unit.enable /\ ~check_against_nsfw(image) /\ SourceFaces(unit, force_blend).kind = "ok"

\* The calls of one process_image_unit.
process_image_unit_calls(model, unit, image, upscaled_swapper, force_blend) ==
    IF UnitSwaps(unit, image, force_blend)
    THEN UnitLoopCalls(model, unit, image, upscaled_swapper,
                       SourceFaces(unit, force_blend).val, 1)
    ELSE NoCalls

\* The calls of the unit application drawn at the start.
RunCalls ==
    process_image_unit_calls(pu.model, pu.unit, pu.image, pu.upscaled_swapper, pu.force_blend)

\* C12: when the content check flags the image, an enabled unit returns
\* exactly one pair, the original image with the original info, whatever its
\* source faces and its blendFaces setting, and makes no call to the face
\* detector or to the swap engine.
C12_UnsafeShortCircuit ==
    (pu.pc = "done" /\ pu.unit.enable /\ pu.image.nsfw) =>
        /\ pu.ret = Ok(<<<<pu.image, pu.info>>>>)
        /\ RunCalls = NoCalls

\* A flagged image given, with an info string, to a blending unit with
\* several source faces and no reference face.
C12_Witness ==
    /\ pu.pc = "done" /\ pu.unit.enable /\ pu.image.nsfw
    /\ pu.unit.blend_faces /\ Len(pu.unit.faces) > 1
    /\ pu.unit.reference_face = PyNone /\ pu.info # PyNone
    /\ pu.ret = Ok(<<<<pu.image, pu.info>>>>)

(***************************************************************************)
(* swap_face, applied to the arguments drawn at the start.                 *)
(***************************************************************************)
\* Three faces: a woman at x = 10 (area 100), a man at x = 20 (area 400), a
\* woman at x = 30 (area 225).
TargetThree ==
    [faces |-> <<DetFace(<<10, 0, 20, 10>>, "F", <<2, 1>>, 90),
                 DetFace(<<20, 0, 40, 20>>, "M", <<1, 2>>, 90),
                 DetFace(<<30, 30, 45, 45>>, "F", <<1, 1>>, 90)>>,
     maxDet |-> DefaultDetSize, nsfw |-> FALSE]

InitSwap ==
    /\ \E source_face \in {PyNone, SourceFaceNo(1), SourceFaceNo(2)},
          target_img \in {TargetNone, TargetOne, TargetTwo, TargetTwoSmall, TargetThree},
          model \in Models \cup {"failing"}, faces_index \in SUBSET {0, 1, 2},
          same_gender \in BOOLEAN, compute_similarity \in BOOLEAN,
          sort_by_face_size \in BOOLEAN :
          sw = [pc |-> "call", reference_face |-> source_face, source_face |-> source_face,
                target_img |-> target_img, model |-> model, faces_index |-> faces_index,
                same_gender |-> same_gender, upscaled_swapper |-> FALSE,
                compute_similarity |-> compute_similarity,
                sort_by_face_size |-> sort_by_face_size,
                passed |-> <<>>, ret |-> PyNone]
    /\ gf = Idle /\ bl = Idle /\ pu = Idle /\ pl = Idle
    /\ bp = Idle /\ an = Idle /\ ug = Idle

SwapFace ==
    /\ sw.pc = "call"
    /\ sw' = [sw EXCEPT
                !.pc = "done",
                !.passed = swap_face_passed(sw.source_face, sw.target_img, sw.model,
                                            sw.faces_index, sw.same_gender,
                                            sw.sort_by_face_size),
                !.ret = swap_face(sw.reference_face, sw.source_face, sw.target_img,
                                  sw.model, sw.faces_index, sw.same_gender,
                                  sw.upscaled_swapper, sw.compute_similarity,
                                  sw.sort_by_face_size)]
    /\ UNCHANGED <<gf, bl, pu, pl, bp, an, ug>>

NextSwap == SwapFace

SpecSwap == InitSwap /\ [][NextSwap]_vars

\* The faces in the order the Face Locator returned them for this call.
Located == get_faces(sw.target_img, <<DefaultDetSize, DefaultDetSize>>, PyNone,
                     sw.sort_by_face_size)

\* The located faces of the source's gender when same_gender is on, all of
\* them otherwise, in the locator's order.
Candidates ==
    IF sw.same_gender
    THEN SelectSeq(Located, LAMBDA x : x.gender = sw.source_face.gender)
    ELSE Located

\* The face was handed to the compositor.
WasPassed(face) == \E j \in 1..Len(sw.passed) : sw.passed[j] = face

\* The face of the image at the place of the given face.
FaceAt(img, face) == img.faces[CHOOSE k \in 1..Len(img.faces) : img.faces[k].bbox = face.bbox]

\* Every passed face was replaced by the generated one and every other
\* located face is as it was.
OnlyPassedTouched ==
    \A k \in 1..Len(Located) :
        FaceAt(sw.ret.val.image, Located[k]) =
            IF WasPassed(Located[k])
            THEN Generated(sw.model, Located[k], sw.source_face)
            ELSE Located[k]

\* C13 as stated: in a swap_face call that returns, whatever same_gender and
\* sort_by_face_size are, a target face is passed to the compositor exactly
\* when its zero-based position in the ordering the Face Locator returned is
\* in faces_index, every other detected face is left untouched, and the
\* compositor is invoked once per selected existing position.
C13_IndexInLocatorOrder ==
    (sw.pc = "done" /\ sw.ret.kind = "ok") =>
        /\ \A k \in 1..Len(Located) : WasPassed(Located[k]) <=> (k - 1) \in sw.faces_index
        /\ Len(sw.passed) = Cardinality({i \in sw.faces_index : i < Len(Located)})
        /\ OnlyPassedTouched

\* C13 amended: in a swap_face call that returns, a target face is passed to
\* the compositor exactly when its zero-based position among the candidates
\* is in faces_index, the candidates being the faces the Face Locator
\* returned, in its order, restricted to the faces of the source's gender
\* when same_gender is on; the compositor is invoked once per selected
\* existing position and every other detected face is left untouched.
C13_IndexAmongCandidates ==
    (sw.pc = "done" /\ sw.ret.kind = "ok") =>
        /\ \A k \in 1..Len(Located) :
              WasPassed(Located[k]) <=>
                 \E p \in 1..Len(Candidates) :
                    Candidates[p] = Located[k] /\ (p - 1) \in sw.faces_index
        /\ Len(sw.passed) = Cardinality({i \in sw.faces_index : i < Len(Candidates)})
        /\ OnlyPassedTouched

\* same_gender on, a woman as source, three located faces of which the second
\* is a man: position 1 of faces_index selects the third located face.
C13_Witness ==
    /\ sw.pc = "done" /\ sw.ret.kind = "ok"
    /\ sw.same_gender /\ sw.faces_index = {1} /\ Len(Located) = 3
    /\ Len(sw.passed) = 1 /\ sw.passed[1] # Located[2]
    /\ FaceAt(sw.ret.val.image, sw.passed[1]) # sw.passed[1]

(***************************************************************************)
(* batch_process, one step of its loop over src_images at a time.          *)
(***************************************************************************)
\* enhance_image(img, postprocess_options): the post-processed image.
enhance_image(img) == [enhanced |-> img]

\* units = [u for u in units if u.enable]
EnabledUnits(units) == SelectSeq(units, LAMBDA u : u.enable)

\* Mutant of StepAfter: the images are saved before they are enhanced.
StepAfter_saveFirst(step) ==
    CASE step = "swap" -> "save" [] step = "save" -> "enhance" [] OTHER -> "collect"

\* The order of the steps of one round of the loop: process_images_units,
\* enhance_image for every image, img.save for every image, and
\* result_images += current_images.
StepAfter(step) ==
    CASE step = "swap" -> "enhance" [] step = "enhance" -> "save" [] OTHER -> "collect"

\* except Exception as e: logger.error(...); traceback.print_exc(); then
\* return None.
Abort(frame, exc) ==
    [frame EXCEPT !.pc = "done", !.ret = PyNone,
                  !.error = [exc |-> exc, src |-> frame.i, step |-> frame.step]]

BatchUnits ==
    { <<>>, <<DisabledUnit>>,
      <<Unit(TRUE, FirstFaces(1), PyNone, FALSE, {0}, FALSE, FALSE, FALSE, TRUE, RZero, RZero)>>,
      <<Unit(TRUE, FirstFaces(2), PyNone, FALSE, {0}, FALSE, FALSE, FALSE, TRUE, RZero, RZero)>>,
      <<DisabledUnit,
        Unit(TRUE, <<>>, PyNone, TRUE, {0}, FALSE, FALSE, FALSE, TRUE, RZero, RZero)>> }

InitBatch ==
    /\ \E src_images \in {PyNone} \cup
                         {Ok(s) : s \in SeqsUpTo({TargetNone, TargetOne, TargetFlagged},
                                                 MaxImages)},
          save_path \in BOOLEAN, units \in BatchUnits, model \in {"exact", "failing"} :
          bp = [pc |-> "call", src_images |-> src_images, save_path |-> save_path,
                units |-> units, model |-> model, upscaled_swapper |-> FALSE,
                i |-> 1, j |-> 1, step |-> "swap", steps_done |-> {},
                swapped |-> <<>>, current_images |-> <<>>, result_images |-> <<>>,
                saved |-> <<>>, error |-> PyNone, ret |-> PyNone]
    /\ gf = Idle /\ bl = Idle /\ pu = Idle /\ pl = Idle
    /\ sw = Idle /\ an = Idle /\ ug = Idle

\* units = [u for u in units if u.enable];
\* if src_images is not None and len(units) > 0: ... else return None
BatchEnter ==
    /\ bp.pc = "call"
    /\ \/ /\ bp.src_images # PyNone /\ Len(EnabledUnits(bp.units)) > 0
          /\ bp' = [bp EXCEPT !.pc = "loop", !.units = EnabledUnits(bp.units)]
       \/ /\ ~(bp.src_images # PyNone /\ Len(EnabledUnits(bp.units)) > 0)
          /\ bp' = [bp EXCEPT !.pc = "done", !.ret = PyNone]
    /\ UNCHANGED <<gf, bl, pu, pl, sw, an, ug>>

\* for src_image in src_images: swapped_images = process_images_units(...);
\* current_images += [img for img, _ in swapped_images]; after the last
\* source image, return result_images.
BatchSwap ==
    /\ bp.pc = "loop" /\ bp.step = "swap"
    /\ \/ /\ bp.i > Len(bp.src_images.val)
          /\ bp' = [bp EXCEPT !.pc = "done", !.ret = Ok(bp.result_images)]
       \/ /\ bp.i <= Len(bp.src_images.val)
          /\ LET swapped_images ==
                    process_images_units(bp.model, bp.units,
                                         <<<<bp.src_images.val[bp.i], PyNone>>>>,
                                         bp.upscaled_swapper, FALSE)
                 called == [bp EXCEPT !.swapped = Append(bp.swapped, bp.i)]
             IN  \/ /\ swapped_images.kind = "raise"
                    /\ bp' = Abort(called, swapped_images.exc)
                 \/ /\ swapped_images.kind = "ok"
                    /\ bp' = [called EXCEPT
                                !.current_images =
                                    [k \in 1..Len(swapped_images.val) |->
                                        swapped_images.val[k][1]],
                                !.steps_done = {"swap"},
                                !.step = StepAfter("swap")]
    /\ UNCHANGED <<gf, bl, pu, pl, sw, an, ug>>

\* for i, img in enumerate(current_images):
\*     current_images[i] = enhance_image(img, postprocess_options)
\* where enhance_image may raise.
BatchEnhance ==
    /\ bp.pc = "loop" /\ bp.step = "enhance"
    /\ \/ bp' = [bp EXCEPT !.current_images =
                               [k \in 1..Len(bp.current_images) |->
                                   enhance_image(bp.current_images[k])],
                           !.steps_done = bp.steps_done \cup {"enhance"},
                           !.step = StepAfter("enhance")]
       \/ /\ bp.current_images # <<>>
          /\ bp' = Abort(bp, "EnhanceError")
    /\ UNCHANGED <<gf, bl, pu, pl, sw, an, ug>>

\* if save_path: for img in current_images: img.save(path), one image at a
\* time; img.save may raise.
BatchSave ==
    /\ bp.pc = "loop" /\ bp.step = "save"
    /\ \/ /\ ~bp.save_path \/ bp.j > Len(bp.current_images)
          /\ bp' = [bp EXCEPT !.j = 1, !.steps_done = bp.steps_done \cup {"save"},
                              !.step = StepAfter("save")]
       \/ /\ bp.save_path /\ bp.j <= Len(bp.current_images)
          /\ \/ bp' = [bp EXCEPT !.saved = Append(bp.saved,
                                                  [src |-> bp.i,
                                                   img |-> bp.current_images[bp.j]]),
                                 !.j = bp.j + 1]
             \/ bp' = Abort(bp, "OSError")
    /\ UNCHANGED <<gf, bl, pu, pl, sw, an, ug>>

\* result_images += current_images, and the next source image.
BatchCollect ==
    /\ bp.pc = "loop" /\ bp.step = "collect"
    /\ bp' = [bp EXCEPT !.result_images = bp.result_images \o bp.current_images,
                        !.current_images = <<>>, !.steps_done = {},
                        !.i = bp.i + 1, !.step = "swap"]
    /\ UNCHANGED <<gf, bl, pu, pl, sw, an, ug>>

NextBatch == BatchEnter \/ BatchSwap \/ BatchEnhance \/ BatchSave \/ BatchCollect

SpecBatch == InitBatch /\ [][NextBatch]_vars

\* batch_process has returned after an exception.
BatchFailed == bp.pc = "done" /\ bp.error # PyNone

\* C14: an exception raised while batch_process handles source image k
\* aborts the whole batch: no further source image is processed, the call
\* returns no image list, and nothing of source images 0..k-1 is committed,
\* neither returned nor left persisted in the output directory.
C14_NoPartialCommit ==
    BatchFailed =>
        /\ bp.swapped = [k \in 1..bp.error.src |-> k]
        /\ bp.ret = PyNone
        /\ \A s \in 1..Len(bp.saved) : ~(bp.saved[s].src < bp.error.src)

\* C19: in batch_process with an output directory, no result of a source
\* image is persisted before the unit pipeline and the post-processing of
\* all of that image's results have completed, and once the pipeline or the
\* post-processing of a source image has failed none of the images produced
\* for that source image is persisted.
C19_PersistAfterPipeline ==
    /\ \A s \in 1..Len(bp.saved) :
          /\ bp.saved[s].src <= bp.i
          /\ bp.saved[s].src = bp.i => {"swap", "enhance"} \subseteq bp.steps_done
    /\ (BatchFailed /\ bp.error.step \in {"swap", "enhance"}) =>
          \A s \in 1..Len(bp.saved) : bp.saved[s].src # bp.error.src

\* The post-processing of the second source image failed after its swap had
\* produced images, the first source image's results being on disk.
C19_Witness ==
    /\ BatchFailed /\ bp.save_path /\ bp.error.step = "enhance" /\ bp.error.src = 2
    /\ bp.current_images # <<>>
    /\ bp.saved # <<>>

(***************************************************************************)
(* get_faces calls that share the cached analysis model, interleaved.      *)
(***************************************************************************)
\* The get_faces calls in flight.
MaxCalls == 2
Calls == 1..MaxCalls

\* The object getAnalysisModel() caches (lru_cache, maxsize 1).
CachedModel == 0

\* FaceAnalysis(...) as constructed: not prepared yet.
Unprepared == [det_size |-> PyNone, det_thresh |-> PyNone]

\* Mutant of DeepCopy: the call works on the cached object itself.
DeepCopy_alias(c) == CachedModel

\* copy.deepcopy(getAnalysisModel()): the object call c gets is its own.
DeepCopy(c) == c

InitAnalysis ==
    /\ \E img \in [Calls -> {TargetNone, TargetTwo, TargetTwoSmall}],
          sz \in [Calls -> {<<640, 640>>, <<320, 320>>, <<1280, 1280>>}],
          srt \in [Calls -> BOOLEAN] :
          an = [heap |-> [o \in {CachedModel} \cup Calls |-> Unprepared],
                calls |-> [c \in Calls |->
                             [pc |-> "copy", img_data |-> img[c],
                              call |-> [det_size |-> sz[c], sort_by_face_size |-> srt[c]],
                              det_size |-> sz[c], det_thresh |-> DefaultDetThresh,
                              sort_by_face_size |-> srt[c],
                              face_analyser |-> CachedModel,
                              passes |-> <<>>, ret |-> <<>>]]]
    /\ gf = Idle /\ bl = Idle /\ pu = Idle /\ pl = Idle
    /\ sw = Idle /\ bp = Idle /\ ug = Idle

\* face_analyser = copy.deepcopy(getAnalysisModel())
AnalysisCopy(c) ==
    /\ an.calls[c].pc = "copy"
    /\ an' = [an EXCEPT !.heap[DeepCopy(c)] = an.heap[CachedModel],
                        !.calls[c].face_analyser = DeepCopy(c),
                        !.calls[c].pc = "prepare"]
    /\ UNCHANGED <<gf, bl, pu, pl, sw, bp, ug>>

\* face_analyser.prepare(ctx_id=0, det_thresh=det_thresh, det_size=det_size)
AnalysisPrepare(c) ==
    /\ an.calls[c].pc = "prepare"
    /\ an' = [an EXCEPT !.heap[an.calls[c].face_analyser] =
                            [det_size |-> Ok(an.calls[c].det_size),
                             det_thresh |-> Ok(an.calls[c].det_thresh)],
                        !.calls[c].pc = "get"]
    /\ UNCHANGED <<gf, bl, pu, pl, sw, bp, ug>>

\* face = face_analyser.get(img_data), at the size and threshold the object
\* holds; then the recursive call at half the size, or the sorted result.
AnalysisGet(c) ==
    /\ an.calls[c].pc = "get"
    /\ LET engine == an.heap[an.calls[c].face_analyser]
           face   == Detect(an.calls[c].img_data, engine.det_size.val, engine.det_thresh.val)
           passes == Append(an.calls[c].passes,
                            [asked |-> an.calls[c].det_size, ran |-> engine.det_size.val])
       IN  \/ /\ ShouldRetry(face, an.calls[c].det_size)
              /\ an' = [an EXCEPT !.calls[c] =
                                     [RetryFrame(an.calls[c]) EXCEPT !.pc = "copy",
                                                                     !.passes = passes]]
           \/ /\ ~ShouldRetry(face, an.calls[c].det_size)
              /\ an' = [an EXCEPT !.calls[c].pc = "done",
                                  !.calls[c].passes = passes,
                                  !.calls[c].ret =
                                      SortFaces(face, an.calls[c].sort_by_face_size)]
    /\ UNCHANGED <<gf, bl, pu, pl, sw, bp, ug>>

NextAnalysis == \E c \in Calls : AnalysisCopy(c) \/ AnalysisPrepare(c) \/ AnalysisGet(c)

SpecAnalysis == InitAnalysis /\ [][NextAnalysis]_vars

\* C15: get_faces applies det_size and det_thresh to a private copy of the
\* cached analysis model only: the cached model's configuration is never
\* changed by a call, the recursive calls included, and in every
\* interleaving each detector pass of a call runs at the size that call
\* asked for, so each call returns what it returns when run alone.
C15_IsolatedConfiguration ==
    /\ an.heap[CachedModel] = Unprepared
    /\ \A c \in Calls :
          /\ \A p \in 1..Len(an.calls[c].passes) :
                an.calls[c].passes[p].ran = an.calls[c].passes[p].asked
          /\ an.calls[c].pc = "done" =>
                an.calls[c].ret =
                    get_faces(an.calls[c].img_data, an.calls[c].call.det_size, PyNone,
                              an.calls[c].call.sort_by_face_size)

\* Two calls with different sizes, the second prepared between the first's
\* prepare and its detector pass, and the first one retried at half its size.
C15_Witness ==
    /\ an.calls[1].call.det_size # an.calls[2].call.det_size
    /\ an.calls[1].pc = "done" /\ Len(an.calls[1].passes) >= 2
    /\ an.calls[2].pc = "get" /\ an.calls[2].passes = <<>>

(***************************************************************************)
(* UpscaledINSwapper.get: the paste-back of the warped generated patch,    *)
(* pixel by pixel (one channel, values 0..255).                            *)
(***************************************************************************)
\* The number of pixels of the images.
MaxPixels == 2

\* fake_diff[fake_diff < fthresh] = 0; fake_diff[fake_diff >= fthresh] = 255
ThresholdDiff(fake_diff, fthresh) ==
    [p \in DOMAIN fake_diff |-> IF fake_diff[p] < fthresh THEN 0 ELSE 255]

\* mask_h_inds, mask_w_inds = np.where(img_mask == 255)
ValidRegion(img_white) == {p \in DOMAIN img_white : img_white[p] = 255}

\* Mutant of BlendWeight: the difference mask scales the weight.
BlendWeight_diff(img_mask, fake_diff) == (img_mask * fake_diff) \div 255

\* The weight of the generated patch in fake_merged, in 255ths: img_mask.
BlendWeight(img_mask, fake_diff) == img_mask

\* .astype(np.uint8) of the non-negative value num / den.
AsUint8(num, den) == (num \div den) % 256

\* img_mask * bgr_fake + (1 - img_mask) * target_img, then astype(np.uint8).
MergePixel(weight, fake, target) ==
    AsUint8(weight * fake + (255 - weight) * target, 255)

\* The paste-back of UpscaledINSwapper.get from the warped images on: np.max
\* of the empty valid region raises, and the exception is re-raised;
\* otherwise fake_merged. img_mask is the presence mask after erosion and
\* blur, fake_diff the difference mask after the warp.
UpscaledINSwapper_get(target_img, bgr_fake, img_white, img_mask, fake_diff, fthresh) ==
    IF ValidRegion(img_white) = {} THEN Raise("ValueError")
    ELSE Ok([p \in DOMAIN target_img |->
                MergePixel(BlendWeight(img_mask[p], ThresholdDiff(fake_diff, fthresh)[p]),
                           bgr_fake[p], target_img[p])])

\* One pixel: target, warped patch, warped white image, presence mask after
\* erosion and blur (0 outside the white region), difference.
PixelInputs ==
    { [target |-> t, fake |-> f, white |-> w.white, mask |-> w.mask, diff |-> d] :
        t \in {0, 200}, f \in {101, 255},
        w \in { [white |-> 0, mask |-> 0], [white |-> 255, mask |-> 0],
                [white |-> 255, mask |-> 128], [white |-> 255, mask |-> 255] },
        d \in {0, 20} }

FthreshValues == {10, 30}

InitGet ==
    /\ \E n \in 1..MaxPixels :
       \E px \in [1..n -> PixelInputs], fthresh \in FthreshValues :
          ug = [pc |-> "call",
                target_img |-> [p \in 1..n |-> px[p].target],
                bgr_fake |-> [p \in 1..n |-> px[p].fake],
                img_white |-> [p \in 1..n |-> px[p].white],
                img_mask |-> [p \in 1..n |-> px[p].mask],
                fake_diff |-> [p \in 1..n |-> px[p].diff],
                fthresh |-> fthresh, ret |-> PyNone]
    /\ gf = Idle /\ bl = Idle /\ pu = Idle /\ pl = Idle
    /\ sw = Idle /\ bp = Idle /\ an = Idle

UpscaledGet ==
    /\ ug.pc = "call"
    /\ ug' = [ug EXCEPT !.pc = "done",
                        !.ret = UpscaledINSwapper_get(ug.target_img, ug.bgr_fake,
                                                      ug.img_white, ug.img_mask,
                                                      ug.fake_diff, ug.fthresh)]
    /\ UNCHANGED <<gf, bl, pu, pl, sw, bp, an>>

NextGet == UpscaledGet

SpecGet == InitGet /\ [][NextGet]_vars

FailureUnits ==
    { DisabledUnit,
      Unit(TRUE, FirstFaces(1), PyNone, FALSE, {0}, FALSE, FALSE, FALSE, TRUE, RZero, RZero),
      Unit(TRUE, FirstFaces(2), PyNone, FALSE, {1}, FALSE, FALSE, FALSE, TRUE, RZero, RZero),
      Unit(TRUE, FirstFaces(2), OtherReference, TRUE, {0}, FALSE, FALSE, FALSE, TRUE,
           RZero, RZero) }

FailureImages == {<<TargetNone, PyNone>>, <<TargetOne, PyNone>>, <<TargetFlagged, GivenInfo>>}

InitFailure ==
    /\ \E units \in SeqsUpTo(FailureUnits, MaxUnits),
          images \in SeqsUpTo(FailureImages, MaxImages) :
          pl = [pc |-> "call", model |-> "failing", units |-> units, images |-> images,
                upscaled_swapper |-> FALSE, force_blend |-> FALSE, ret |-> PyNone]
    /\ gf = Idle /\ bl = Idle /\ pu = Idle
    /\ sw = Idle /\ bp = Idle /\ an = Idle /\ ug = Idle

SpecFailure == InitFailure /\ [][NextPipeline]_vars

\* The first unit applied to the first image.
FirstApplication ==
    process_image_unit(pl.model, pl.units[1], pl.images[1][1], pl.images[1][2],
                       pl.upscaled_swapper, pl.force_blend)

\* The compositor is invoked when the unit is applied to the image.
InvokesCompositor(unit, image) ==
    process_image_unit_calls(pl.model, unit, image, pl.upscaled_swapper,
                             pl.force_blend).face_swapper_get > 0

\* C17: a failure inside the compositor is never swallowed on the way to the
\* caller of the unit pipeline. UpscaledINSwapper.get raises on an empty
\* valid region; swap_face raises when a face is passed to the failing
\* compositor; process_image_unit raises when the unit invokes it; and
\* process_images_units raises when its first unit application, or the rest
\* of the pipeline applied to what that application returned, raises: none
\* of them returns an image for that unit application.
C17_FailurePropagates ==
    /\ \A x \in PixelInputs :
          x.white # 255 =>
             UpscaledINSwapper_get(<<x.target>>, <<x.fake>>, <<x.white>>, <<x.mask>>,
                                   <<x.diff>>, 10) = Raise("ValueError")
    /\ (pl.pc = "done" /\ pl.model = "failing") =>
          \A k \in 1..Len(pl.units), i \in 1..Len(pl.images) :
             LET unit == pl.units[k]  image == pl.images[i][1] IN
             /\ \A f \in 1..Len(unit.faces) :
                   swap_face_passed(unit.faces[f], image, pl.model, unit.faces_index,
                                    unit.same_gender, unit.sort_by_size) # <<>>
                   => swap_face(ReferenceFace(unit, unit.faces[f]), unit.faces[f], image,
                                pl.model, unit.faces_index, unit.same_gender,
                                pl.upscaled_swapper, unit.compute_similarity,
                                unit.sort_by_size) = Raise("ValueError")
             /\ InvokesCompositor(unit, image)
                   => process_image_unit(pl.model, unit, image, pl.images[i][2],
                                         pl.upscaled_swapper, pl.force_blend)
                         = Raise("ValueError")
    /\ (pl.pc = "done" /\ pl.model = "failing" /\ Len(pl.units) > 0 /\ Len(pl.images) > 0) =>
          /\ FirstApplication.kind = "raise" => pl.ret = FirstApplication
          /\ FirstApplication.kind = "ok" =>
                LET nexts == process_images_units(pl.model, Tail(pl.units),
                                                  FirstApplication.val,
                                                  pl.upscaled_swapper, pl.force_blend)
                IN  nexts.kind = "raise" => pl.ret = nexts

\* The first unit hands the image on without invoking the compositor, the
\* second unit invokes it, and the pipeline raises.
C17_Witness ==
    /\ pl.pc = "done" /\ pl.model = "failing" /\ Len(pl.units) = 2 /\ Len(pl.images) > 0
    /\ ~InvokesCompositor(pl.units[1], pl.images[1][1])
    /\ FirstApplication.kind = "ok" /\ FirstApplication.val # <<>>
    /\ InvokesCompositor(pl.units[2], pl.images[1][1])
    /\ pl.ret = Raise("ValueError")

\* C18: for every identity process_image_unit swaps, in blend mode as in
\* enumerate mode and for any number of source faces, the reference
\* similarity is computed against the unit's reference_face when one is
\* configured and against the identity itself otherwise, and a unit without
\* a reference face never fails for lack of one.
C18_ReferenceOrIdentity ==
    (pu.pc = "done" /\ pu.unit.enable /\ ~pu.image.nsfw) =>
        /\ pu.unit.reference_face = PyNone => pu.ret # Raise("AttributeError")
        /\ (pu.ret.kind = "ok" /\ ~pu.unit.check_similarity) =>
              /\ Len(pu.ret.val) = Len(RunSources)
              /\ \A i \in 1..Len(RunSources) : pu.ret.val[i] = RunPair(i)

====
